---- MODULE Spec2Model ----
(***************************************************************************)
(* cargo-edit: the `cargo add` and `cargo rm` command handlers.            *)
(*                                                                         *)
(* Strings that the code takes apart or builds (crate specifiers, version  *)
(* requirements, the --upgrade mode) are sequences of one-character        *)
(* strings, so that splitting at '@', upper-casing and `prefix ++ version` *)
(* are computed.  Strings that the code only passes on or tests for        *)
(* emptiness (the target, section names, error names) are TLA+ strings.    *)
(* Option<T> is a sequence of length 0 (None) or 1 (Some).                 *)
(***************************************************************************)
EXTENDS Integers, Sequences, FiniteSets, TLC

(* ---------- bounds ---------- *)

\* largest number of crate tokens on one `cargo add` command line
MaxCrates == 2

(* ---------- Option ---------- *)

None == <<>>
Some(x) == <<x>>
IsSome(o) == Len(o) = 1
Unwrap(o) == o[1]

(* ---------- text ---------- *)

LowerChars == <<"a","b","c","d","e","f","g","h","i","j","k","l","m",
                "n","o","p","q","r","s","t","u","v","w","x","y","z">>
UpperChars == <<"A","B","C","D","E","F","G","H","I","J","K","L","M",
                "N","O","P","Q","R","S","T","U","V","W","X","Y","Z">>

CharToUpper(c) ==
    IF \E i \in 1..26 : LowerChars[i] = c
    THEN UpperChars[CHOOSE i \in 1..26 : LowerChars[i] = c]
    ELSE c

\* str::to_uppercase
to_uppercase(s) == [i \in 1..Len(s) |-> CharToUpper(s[i])]

Contains(s, c) == \E i \in 1..Len(s) : s[i] = c

FirstIndex(s, c) == CHOOSE i \in 1..Len(s) : s[i] = c /\ \A j \in 1..(i-1) : s[j] # c

Digits == {"0","1","2","3","4","5","6","7","8","9"}

\* semver::VersionReq::parse, as far as acceptance goes: an optional comparison
\* operator followed by dot-separated numbers.
StripOp(s) ==
    IF Len(s) >= 2 /\ s[1] = ">" /\ s[2] = "=" THEN SubSeq(s, 3, Len(s))
    ELSE IF Len(s) >= 1 /\ s[1] \in {"=", "~", "^", ">", "<"} THEN SubSeq(s, 2, Len(s))
    ELSE s

VersionReqParses(s) ==
    LET b == StripOp(s) IN
    /\ Len(b) >= 1
    /\ b[1] \in Digits
    /\ b[Len(b)] \in Digits
    /\ \A i \in 1..Len(b) : b[i] \in Digits \cup {"."}
    /\ \A i \in 1..(Len(b)-1) : ~(b[i] = "." /\ b[i+1] = ".")

(* ---------- cargo_edit::Dependency ---------- *)

\* Dependency::new(name): a registry dependency without a version
DependencyNew(name) ==
    [name |-> name, source |-> "Registry", version |-> None, loc |-> None, optional |-> FALSE]

set_version(d, v) == [d EXCEPT !.source = "Registry", !.version = Some(v), !.loc = None]
set_git(d, url)   == [d EXCEPT !.source = "Git", !.version = None, !.loc = Some(url)]
set_path(d, p)    == [d EXCEPT !.source = "Path", !.version = None, !.loc = Some(p)]
set_optional(d, o) == [d EXCEPT !.optional = o]
\* Dependency::version()
version(d) == IF d.source = "Registry" THEN d.version ELSE None

NoDep == DependencyNew(<<>>)

(* ---------- results of the resolver ---------- *)

\* One event per call to a collaborator made during resolution.
Event(op, idx, arg, pre, resp) ==
    [op |-> op, idx |-> idx, arg |-> arg, pre |-> pre, resp |-> resp]

Ok(dep, evs)  == [tag |-> "Ok",    dep |-> dep,   err |-> "",  evs |-> evs]
Err(e, evs)   == [tag |-> "Err",   dep |-> NoDep, err |-> e,   evs |-> evs]
Panic(e, evs) == [tag |-> "Panic", dep |-> NoDep, err |-> e,   evs |-> evs]

(* ---------- cargo_edit::CrateName ---------- *)

\* CrateName::has_version: the specifier carries an '@'
has_version(tok) == Contains(tok, "@")

VersionPart(tok) == SubSeq(tok, FirstIndex(tok, "@") + 1, Len(tok))
NamePart(tok)    == SubSeq(tok, 1, FirstIndex(tok, "@") - 1)

\* CrateName::parse_as_version: Ok(Some(dep)) for name@version, Ok(None) without
\* an '@', Err when the part after the '@' is no version.
parse_as_version(tok) ==
    IF ~has_version(tok) THEN [tag |-> "None", dep |-> NoDep]
    ELSE IF ~VersionReqParses(VersionPart(tok)) THEN [tag |-> "Err", dep |-> NoDep]
    ELSE [tag |-> "Some", dep |-> set_version(DependencyNew(NamePart(tok)), VersionPart(tok))]

\* a URL carries a scheme separator, a path a '.' or a '/'
is_url(tok)  == Contains(tok, ":")
is_path(tok) == Contains(tok, ".") \/ Contains(tok, "/")
is_url_or_path(tok) == is_url(tok) \/ is_path(tok)

\* CrateName::parse_crate_name_from_uri: the name comes from the manifest found at
\* the locator (loc: None when none is found), the source from the locator's kind.
parse_crate_name_from_uri(tok, idx, loc) ==
    LET ev == <<Event("locate", idx, tok, FALSE, loc)>> IN
    IF ~IsSome(loc) THEN Err("InvalidLocator", ev)
    ELSE IF is_url(tok) THEN Ok(set_git(DependencyNew(Unwrap(loc)), tok), ev)
    ELSE Ok(set_path(DependencyNew(Unwrap(loc)), tok), ev)

\* cargo_edit::get_latest_dependency: reg is the registry's answer, None when no
\* version is found; the dependency carries the version as the registry gives it.
get_latest_dependency(tok, idx, pre, reg) ==
    LET ev == <<Event("lookup", idx, tok, pre, reg)>> IN
    IF ~IsSome(reg) THEN Err("RegistryLookupFailure", ev)
    ELSE Ok(set_version(DependencyNew(tok), Unwrap(reg)), ev)

(* ---------- add: Args ---------- *)

STR_NONE  == <<"N","O","N","E">>
STR_PATCH == <<"P","A","T","C","H">>
STR_MINOR == <<"M","I","N","O","R">>
STR_ALL   == <<"A","L","L">>

\* get_upgrade_prefix with the prefixes of patch and minor exchanged
get_upgrade_prefix_swapped(a) ==
    LET u == to_uppercase(a.flag_upgrade) IN
    IF u = STR_NONE THEN Some(<<"=">>)
    ELSE IF u = STR_PATCH THEN Some(<<"^">>)
    ELSE IF u = STR_MINOR THEN Some(<<"~">>)
    ELSE IF u = STR_ALL THEN Some(<<">", "=">>)
    ELSE None

\* Args::get_upgrade_prefix; None stands for the unreachable!() arm
get_upgrade_prefix(a) ==
    LET u == to_uppercase(a.flag_upgrade) IN
    IF u = STR_NONE THEN Some(<<"=">>)
    ELSE IF u = STR_PATCH THEN Some(<<"~">>)
    ELSE IF u = STR_MINOR THEN Some(<<"^">>)
    ELSE IF u = STR_ALL THEN Some(<<">", "=">>)
    ELSE None

\* get_section looking at the target before the kind
get_section_target_first(a) ==
    IF IsSome(a.flag_target) /\ Unwrap(a.flag_target) # ""
    THEN Some(<<"target", Unwrap(a.flag_target), "dependencies">>)
    ELSE IF a.dep_kind = "Dev" THEN Some(<<"dev-dependencies">>)
    ELSE IF a.dep_kind = "Build" THEN Some(<<"build-dependencies">>)
    ELSE IF IsSome(a.flag_target) THEN None
    ELSE Some(<<"dependencies">>)

\* Args::get_section (add); None stands for the panic on an empty target
get_section(a) ==
    IF a.dep_kind = "Dev" THEN Some(<<"dev-dependencies">>)
    ELSE IF a.dep_kind = "Build" THEN Some(<<"build-dependencies">>)
    ELSE IF IsSome(a.flag_target)
         THEN IF Unwrap(a.flag_target) = "" THEN None
              ELSE Some(<<"target", Unwrap(a.flag_target), "dependencies">>)
         ELSE Some(<<"dependencies">>)

\* rm: Args::get_section
rm_get_section(a) ==
    IF a.dep_kind = "Dev" THEN "dev-dependencies"
    ELSE IF a.dep_kind = "Build" THEN "build-dependencies"
    ELSE "dependencies"

WithOptional(a, r) ==
    IF r.tag = "Ok" THEN [r EXCEPT !.dep = set_optional(r.dep, a.dep_kind = "Optional")] ELSE r

\* the plain-name branch with the path flag tested before the git flag
plain_name_path_first(a, reg) ==
    LET tok == a.arg_crates[1]
        dependency == DependencyNew(tok)
    IN  IF IsSome(a.flag_vers)
        THEN IF VersionReqParses(Unwrap(a.flag_vers))
             THEN Ok(set_version(dependency, Unwrap(a.flag_vers)), <<>>)
             ELSE Err("InvalidVersionRequirement", <<>>)
        ELSE IF IsSome(a.flag_path) THEN Ok(set_path(dependency, Unwrap(a.flag_path)), <<>>)
        ELSE IF IsSome(a.flag_git) THEN Ok(set_git(dependency, Unwrap(a.flag_git)), <<>>)
        ELSE LET r == get_latest_dependency(tok, 1, a.flag_allow_prerelease, reg) IN
             IF r.tag # "Ok" THEN r
             ELSE IF ~IsSome(get_upgrade_prefix(a)) THEN Panic("unreachable", r.evs)
             ELSE Ok(set_version(r.dep, Unwrap(get_upgrade_prefix(a)) \o Unwrap(version(r.dep))),
                     r.evs)

\* parse_dependencies, single crate, the specifier being a plain name: the
\* version flag, else the git flag, else the path flag, else the registry.
plain_name_dependency(a, reg) ==
    LET tok == a.arg_crates[1]
        dependency == DependencyNew(tok)
    IN  IF IsSome(a.flag_vers)
        THEN IF VersionReqParses(Unwrap(a.flag_vers))
             THEN Ok(set_version(dependency, Unwrap(a.flag_vers)), <<>>)
             ELSE Err("InvalidVersionRequirement", <<>>)
        ELSE IF IsSome(a.flag_git) THEN Ok(set_git(dependency, Unwrap(a.flag_git)), <<>>)
        ELSE IF IsSome(a.flag_path) THEN Ok(set_path(dependency, Unwrap(a.flag_path)), <<>>)
        ELSE LET r == get_latest_dependency(tok, 1, a.flag_allow_prerelease, reg) IN
             IF r.tag # "Ok" THEN r
             ELSE IF ~IsSome(get_upgrade_prefix(a)) THEN Panic("unreachable", r.evs)
             ELSE Ok(set_version(r.dep, Unwrap(get_upgrade_prefix(a)) \o Unwrap(version(r.dep))),
                     r.evs)

\* the single-crate branch letting a version flag override name@version
single_flag_vers_first(a, reg, loc) ==
    LET tok == a.arg_crates[1]
        pv  == parse_as_version(tok)
    IN  WithOptional(a,
          IF pv.tag = "Err" THEN Err("InvalidVersionLiteral", <<>>)
          ELSE IF pv.tag = "Some" /\ ~IsSome(a.flag_vers) THEN Ok(pv.dep, <<>>)
          ELSE IF pv.tag = "Some" THEN plain_name_dependency(a, reg)
          ELSE IF ~is_url_or_path(tok) THEN plain_name_dependency(a, reg)
          ELSE parse_crate_name_from_uri(tok, 1, loc))

\* the single-crate branch letting a git flag override a URL or path specifier
single_flag_git_first(a, reg, loc) ==
    LET tok == a.arg_crates[1]
        pv  == parse_as_version(tok)
    IN  WithOptional(a,
          IF pv.tag = "Err" THEN Err("InvalidVersionLiteral", <<>>)
          ELSE IF pv.tag = "Some" THEN Ok(pv.dep, <<>>)
          ELSE IF ~is_url_or_path(tok) \/ IsSome(a.flag_git) THEN plain_name_dependency(a, reg)
          ELSE parse_crate_name_from_uri(tok, 1, loc))

\* parse_dependencies, single crate (arg_crates.len() <= 1)
parse_dependencies_single(a, reg, loc) ==
    LET tok == a.arg_crates[1]
        pv  == parse_as_version(tok)
    IN  WithOptional(a,
          IF pv.tag = "Err" THEN Err("InvalidVersionLiteral", <<>>)
          ELSE IF pv.tag = "Some" THEN Ok(pv.dep, <<>>)
          ELSE IF ~is_url_or_path(tok) THEN plain_name_dependency(a, reg)
          ELSE parse_crate_name_from_uri(tok, 1, loc))

\* parse_dependencies, one token of a batch (the closure of the map)
batch_item(a, i, reg) ==
    LET tok == a.arg_crates[i]
        pv  == parse_as_version(tok)
    IN  WithOptional(a,
          IF pv.tag = "Err" THEN Err("InvalidVersionLiteral", <<>>)
          ELSE IF pv.tag = "Some" THEN Ok(pv.dep, <<>>)
          ELSE get_latest_dependency(tok, i, a.flag_allow_prerelease, reg))

\* the result of parse_dependencies: a list or an error, and the collaborator calls made
Parsed(tag, deps, err, evs) == [tag |-> tag, deps |-> deps, err |-> err, evs |-> evs]

RECURSIVE collect_all(_, _, _, _, _)
\* a collect that resolves every token and reports the first error afterwards
collect_all(a, regs, i, acc, evs) ==
    IF i > Len(a.arg_crates)
    THEN LET bad == { j \in 1..Len(a.arg_crates) : batch_item(a, j, regs[j]).tag = "Err" } IN
         IF bad = {} THEN Parsed("Ok", acc, "", evs)
         ELSE Parsed("Err", <<>>,
                     batch_item(a, CHOOSE j \in bad : \A k \in bad : j <= k,
                                regs[CHOOSE j \in bad : \A k \in bad : j <= k]).err, evs)
    ELSE LET r == batch_item(a, i, regs[i]) IN
         collect_all(a, regs, i + 1, IF r.tag = "Err" THEN acc ELSE Append(acc, r.dep),
                     evs \o r.evs)

RECURSIVE collect(_, _, _, _, _)
\* iter().map(..).collect::<Result<Vec<_>>>(): stops at the first Err
collect(a, regs, i, acc, evs) ==
    IF i > Len(a.arg_crates) THEN Parsed("Ok", acc, "", evs)
    ELSE LET r == batch_item(a, i, regs[i]) IN
         IF r.tag = "Err" THEN Parsed("Err", <<>>, r.err, evs \o r.evs)
         ELSE collect(a, regs, i + 1, Append(acc, r.dep), evs \o r.evs)

\* Args::parse_dependencies; regs[i] is what the registry answers for token i if
\* it is asked, loc what the locator resolver answers (only a single crate asks it)
parse_dependencies(a, regs, loc) ==
    IF Len(a.arg_crates) > 1 THEN collect(a, regs, 1, <<>>, <<>>)
    ELSE LET r == parse_dependencies_single(a, regs[1], loc) IN
         Parsed(r.tag, IF r.tag = "Ok" THEN <<r.dep>> ELSE <<>>, r.err, r.evs)


(* ---------- the command line ---------- *)

\* crate specifiers: a plain name, name@version, name@garbage, a URL, a path
Tokens == { <<"a">>, <<"a","@","1">>, <<"a","@","x">>, <<":","a">>, <<".">> }

DepKinds   == {"Build", "Dev", "Optional", "Normal"}
RmDepKinds == {"Build", "Dev", "Normal"}

VersFlags   == { None, Some(<<"0",".","4",".","2">>), Some(<<"x">>) }
GitFlags    == { None, Some(<<":","g">>) }
PathFlags   == { None, Some(<<"/","p">>) }
TargetFlags == { None, Some(""), Some("x86_64-unknown-linux-gnu") }

\* what clap lets through for --upgrade: one of the four names in any letter case,
\* "minor" when the option is absent
UpgradeValues == { <<"m","i","n","o","r">>, <<"n","o","n","e">>,
                   <<"P","a","t","c","h">>, <<"A","L","L">> }

\* impl From<&ArgMatches> for Args (add), `cargo add <crate>`: one crate, every
\* combination of the options
SingleArgs ==
    [ arg_crates : [1..1 -> Tokens], dep_kind : DepKinds, flag_vers : VersFlags,
      flag_git : GitFlags, flag_path : PathFlags, flag_target : TargetFlags,
      flag_upgrade : UpgradeValues, flag_allow_prerelease : BOOLEAN,
      flag_quiet : BOOLEAN ]

\* impl From<&ArgMatches> for Args (add), `cargo add <crates>...`: the usage line
\* takes no --vers, --git or --path here; they are drawn all absent (with the
\* default --upgrade) or all present (with --upgrade=none)
BatchArgs ==
    { [ arg_crates |-> c, dep_kind |-> k, flag_vers |-> f[1], flag_git |-> f[2],
        flag_path |-> f[3], flag_target |-> t, flag_upgrade |-> f[4],
        flag_allow_prerelease |-> p, flag_quiet |-> q ] :
        c \in UNION { [1..n -> Tokens] : n \in 2..MaxCrates },
        k \in DepKinds,
        f \in { <<None, None, None, <<"m","i","n","o","r">> >>,
                <<Some(<<"x">>), Some(<<":","g">>), Some(<<"/","p">>), <<"n","o","n","e">> >> },
        t \in TargetFlags,
        p \in BOOLEAN, q \in BOOLEAN }

ArgsFromMatches == SingleArgs \cup BatchArgs

\* impl Default for Args (add)
ArgsDefault ==
    [ arg_crates |-> << <<"d","e","m","o">> >>, dep_kind |-> "Normal", flag_vers |-> None,
      flag_git |-> None, flag_path |-> None, flag_target |-> None,
      flag_upgrade |-> <<"^">>, flag_allow_prerelease |-> FALSE, flag_quiet |-> FALSE ]

\* Args { arg_crates: .., flag_vers: .., ..Args::default() }, as the tests build them
ArgsFromDefault ==
    { [ArgsDefault EXCEPT !.arg_crates = c, !.flag_vers = v] :
        c \in { ArgsDefault.arg_crates, << <<".">> >> }, v \in VersFlags }

\* impl From<&ArgMatches> for Args (rm)
RmArgsFromMatches ==
    [ arg_crate : { <<"a">>, <<"b">> }, dep_kind : RmDepKinds, flag_quiet : BOOLEAN ]

\* answers of the registry (the latest version, or none) and of the locator
\* resolver (the crate's name, or none)
RegResponses == { None, Some(<<"2",".","0">>) }
LocResponses == { None, Some(<<"c">>) }

(* ---------- state ---------- *)

VARIABLES
    prog,       \* "add" or "rm": which binary runs
    args,       \* its Args
    pc,         \* the next step of handle_add / handle_rm
    deps,       \* handle_add: the resolved dependencies
    idx,        \* handle_add: the dependency the loop is at
    evs,        \* collaborator calls made by parse_dependencies
    log,        \* calls on the manifest and progress notifications, in order
    inserted,   \* the in-memory document: entries inserted
    removed,    \* the in-memory document: entries removed
    writes,     \* number of calls of write_to_file on the manifest file
    outcome,    \* "running", "ok", "error" (Err reached main) or "panic"
    err,        \* the error or panic
    exit_code   \* the process's exit code, -1 while running

vars == <<prog, args, pc, deps, idx, evs, log, inserted, removed, writes, outcome, err, exit_code>>

Call(op, i, ok, sec) == [op |-> op, idx |-> i, ok |-> ok, sec |-> sec]

Init ==
    /\ prog \in {"add", "rm"}
    /\ args \in IF prog = "add" THEN ArgsFromMatches \cup ArgsFromDefault ELSE RmArgsFromMatches
    /\ pc = "open"
    /\ deps = <<>>
    /\ idx = 0
    /\ evs = <<>>
    /\ log = <<>>
    /\ inserted = <<>>
    /\ removed = <<>>
    /\ writes = 0
    /\ outcome = "running"
    /\ err = ""
    /\ exit_code = -1

\* main: handle_* returned Err(e); the error is printed and the process exits with 1
Fail(e) ==
    /\ outcome' = "error"
    /\ err' = e
    /\ exit_code' = 1
    /\ pc' = "done"

\* a panic!() or unreachable!() unwinds out of main
Abort(e) ==
    /\ outcome' = "panic"
    /\ err' = e
    /\ exit_code' = 101
    /\ pc' = "done"

Running == UNCHANGED <<outcome, err, exit_code>>

\* the step the loop of handle_add starts an iteration with
iteration_start(a) == IF a.flag_quiet THEN "insert" ELSE "print_msg"

\* a loop that drops the result of insert_into_table
after_insert_ignore_err(ok, i, n) == IF i < n THEN "next" ELSE "find_file"

\* where handle_add goes after insert_into_table for dependency i of n
after_insert(ok, i, n) ==
    IF ~ok THEN "failed" ELSE IF i < n THEN "next" ELSE "find_file"

\* Manifest::open
Open ==
    /\ pc = "open"
    /\ \E ok \in BOOLEAN :
        /\ log' = Append(log, Call("open", 0, ok, <<>>))
        /\ IF ok
           THEN /\ pc' = IF prog = "add" THEN "parse"
                         ELSE IF args.flag_quiet THEN "remove" ELSE "rm_print_msg"
                /\ Running
           ELSE Fail("ManifestNotFound")
    /\ UNCHANGED <<prog, args, deps, idx, evs, inserted, removed, writes>>

\* args.parse_dependencies()?
ParseDependencies ==
    /\ pc = "parse"
    /\ \E regs \in [1..Len(args.arg_crates) -> RegResponses],
          loc \in LocResponses :
        LET r == parse_dependencies(args, regs, loc) IN
        /\ evs' = r.evs
        /\ deps' = r.deps
        /\ IF r.tag = "Ok" THEN /\ pc' = iteration_start(args)
                                /\ idx' = 1
                                /\ Running
           ELSE IF r.tag = "Err" THEN Fail(r.err) /\ UNCHANGED idx
           ELSE Abort(r.err) /\ UNCHANGED idx
    /\ UNCHANGED <<prog, args, log, inserted, removed, writes>>

\* print_msg(dep, &args.get_section(), ..)?  (add)
PrintMsg ==
    /\ pc = "print_msg"
    /\ IF ~IsSome(get_section(args))
       THEN Abort("Target specification may not be empty") /\ UNCHANGED log
       ELSE \E ok \in BOOLEAN :
            /\ log' = Append(log, Call("print_msg", idx, ok, Unwrap(get_section(args))))
            /\ IF ok THEN pc' = "insert" /\ Running ELSE Fail("Io")
    /\ UNCHANGED <<prog, args, deps, idx, evs, inserted, removed, writes>>

\* manifest.insert_into_table(&args.get_section(), dep), and the collect()...? after it
InsertIntoTable ==
    /\ pc = "insert"
    /\ IF ~IsSome(get_section(args))
       THEN Abort("Target specification may not be empty") /\ UNCHANGED <<log, inserted, idx>>
       ELSE \E ok \in BOOLEAN :
            LET sec == Unwrap(get_section(args))
                to  == after_insert(ok, idx, Len(deps))
            IN  /\ log' = Append(log, Call("insert_into_table", idx, ok, sec))
                /\ inserted' = IF ok THEN Append(inserted, [sec |-> sec, dep |-> deps[idx]])
                               ELSE inserted
                /\ IF to = "failed" THEN Fail("TableInsertConflict") /\ UNCHANGED idx
                   ELSE IF to = "next" THEN /\ pc' = iteration_start(args)
                                            /\ idx' = idx + 1
                                            /\ Running
                   ELSE pc' = "find_file" /\ UNCHANGED idx /\ Running
    /\ UNCHANGED <<prog, args, deps, evs, removed, writes>>

\* print_msg(&args.arg_crate, args.get_section())?  (rm)
RmPrintMsg ==
    /\ pc = "rm_print_msg"
    /\ \E ok \in BOOLEAN :
        /\ log' = Append(log, Call("print_msg", 0, ok, <<rm_get_section(args)>>))
        /\ IF ok THEN pc' = "remove" /\ Running ELSE Fail("Io")
    /\ UNCHANGED <<prog, args, deps, idx, evs, inserted, removed, writes>>

\* where handle_rm goes after remove_from_table
after_remove(ok) == IF ok THEN "find_file" ELSE "failed"

\* manifest.remove_from_table(args.get_section(), &args.arg_crate)
RemoveFromTable ==
    /\ pc = "remove"
    /\ \E ok \in BOOLEAN :
        /\ log' = Append(log, Call("remove_from_table", 0, ok, <<rm_get_section(args)>>))
        /\ removed' = IF ok THEN Append(removed, [sec |-> <<rm_get_section(args)>>,
                                                   name |-> args.arg_crate])
                      ELSE removed
        /\ IF after_remove(ok) = "failed" THEN Fail("EntryNotFound")
           ELSE pc' = "find_file" /\ Running
    /\ UNCHANGED <<prog, args, deps, idx, evs, inserted, writes>>

\* Manifest::find_file(&manifest_path)?
FindFile ==
    /\ pc = "find_file"
    /\ \E ok \in BOOLEAN :
        /\ log' = Append(log, Call("find_file", 0, ok, <<>>))
        /\ IF ok THEN pc' = "write" /\ Running ELSE Fail("ManifestNotFound")
    /\ UNCHANGED <<prog, args, deps, idx, evs, inserted, removed, writes>>

\* manifest.write_to_file(&mut file)?, and the handler's Ok(())
WriteToFile ==
    /\ pc = "write"
    /\ \E ok \in BOOLEAN :
        /\ log' = Append(log, Call("write_to_file", 0, ok, <<>>))
        /\ writes' = writes + 1
        /\ IF ok THEN /\ outcome' = "ok"
                      /\ err' = ""
                      /\ exit_code' = 0
                      /\ pc' = "done"
           ELSE Fail("Io")
    /\ UNCHANGED <<prog, args, deps, idx, evs, inserted, removed>>

Next ==
    \/ Open
    \/ ParseDependencies
    \/ PrintMsg
    \/ InsertIntoTable
    \/ RmPrintMsg
    \/ RemoveFromTable
    \/ FindFile
    \/ WriteToFile

Spec == Init /\ [][Next]_vars

TypeOK ==
    /\ prog \in {"add", "rm"}
    /\ pc \in {"open", "parse", "print_msg", "insert", "rm_print_msg", "remove",
               "find_file", "write", "done"}
    /\ outcome \in {"running", "ok", "error", "panic"}
    /\ writes \in 0..1
    /\ exit_code \in {-1, 0, 1, 101}

(* ---------- properties ---------- *)

IsAdd == prog = "add"
IsRm  == prog = "rm"

\* Manifest::open succeeded and parse_dependencies has returned (or panicked)
ParseRan == IsAdd /\ Len(log) >= 1 /\ log[1].ok /\ pc # "parse"

Single == IsAdd /\ Len(args.arg_crates) = 1
Batch  == IsAdd /\ Len(args.arg_crates) > 1

\* the three classes of a specifier
Pinned(tok)    == Contains(tok, "@") /\ VersionReqParses(VersionPart(tok))
BadPinned(tok) == Contains(tok, "@") /\ ~VersionReqParses(VersionPart(tok))
Locator(tok)   == ~Contains(tok, "@") /\ (Contains(tok, ":") \/ Contains(tok, ".") \/ Contains(tok, "/"))
PlainName(tok) == ~Contains(tok, "@") /\ ~Locator(tok)

LogOps(op) == { i \in 1..Len(log) : log[i].op = op }
Lookups    == { i \in 1..Len(evs) : evs[i].op = "lookup" }

\* every call the handler made before the write returned Ok, and the handler made
\* all of them: the open, the resolution, one notification per dependency unless
\* quiet, and one insertion per dependency or the removal
AllStepsSucceeded ==
    /\ \A j \in 1..Len(log) : log[j].op # "write_to_file" => log[j].ok
    /\ LogOps("open") # {}
    /\ LogOps("find_file") # {}
    /\ IsAdd => /\ Len(deps) = Len(args.arg_crates)
                /\ Len(inserted) = Len(deps)
                /\ Cardinality(LogOps("insert_into_table")) = Len(deps)
                /\ Cardinality(LogOps("print_msg")) = IF args.flag_quiet THEN 0 ELSE Len(deps)
    /\ IsRm => /\ Len(removed) = 1
               /\ Cardinality(LogOps("print_msg")) = IF args.flag_quiet THEN 0 ELSE 1

WriteDiscipline ==
    /\ writes <= 1
    /\ Cardinality(LogOps("write_to_file")) = writes
    /\ \A i \in LogOps("write_to_file") : i = Len(log)
    /\ writes = 1 => AllStepsSucceeded

\* C1 as stated: the manifest file is written at most once, the write is the last
\* manifest action, it happens only if every preceding step succeeded, and an
\* execution that ends in an error has written the file zero times.
C1_AsStated ==
    /\ WriteDiscipline
    /\ outcome = "error" => writes = 0

\* C1, amended: the manifest file is written at most once, the write is the last
\* manifest action and it happens only if every preceding step succeeded; an
\* execution that ends in an error raised by any step before write_to_file has
\* written the file zero times, and the only error after a write is the write's own.
C1_WriteOnceAtEnd ==
    /\ WriteDiscipline
    /\ (outcome = "error" /\ writes = 1) =>
          /\ log[Len(log)].op = "write_to_file"
          /\ ~log[Len(log)].ok
          /\ err = "Io"
    /\ (outcome = "error" /\ \E j \in 1..Len(log) : log[j].op # "write_to_file" /\ ~log[j].ok)
          => writes = 0
    /\ (outcome = "error" /\ err \in {"InvalidVersionLiteral", "InvalidVersionRequirement",
                                      "RegistryLookupFailure", "InvalidLocator"})
          => writes = 0

\* a two-crate add that inserted both dependencies and wrote the file
C1_Witness ==
    /\ IsAdd /\ outcome = "ok" /\ writes = 1 /\ Len(inserted) = 2

\* the first token of the batch that fails to resolve
FailsAt(i) ==
    \/ BadPinned(args.arg_crates[i])
    \/ \E e \in Lookups : evs[e].idx = i /\ ~IsSome(evs[e].resp)

\* C2: batch resolution is fail-fast: tokens are resolved in their listed order;
\* when token i is the first to fail, no token after i is looked up, no dependency
\* list is returned, and handle_add notifies nothing, inserts nothing, writes nothing.
C2_BatchFailFast ==
    (Batch /\ ParseRan) =>
        /\ \A e \in 1..Len(evs) : evs[e].op = "lookup"
        /\ \A e, f \in 1..Len(evs) : e < f => evs[e].idx < evs[f].idx
        /\ \A i \in 1..Len(args.arg_crates) :
              (FailsAt(i) /\ \A j \in 1..(i-1) : ~FailsAt(j)) =>
                  /\ \A e \in 1..Len(evs) : evs[e].idx <= i
                  /\ \A j \in 1..(i-1) :
                        ~Contains(args.arg_crates[j], "@") => \E e \in Lookups : evs[e].idx = j
                  /\ deps = <<>>
                  /\ outcome = "error"
                  /\ err \in {"InvalidVersionLiteral", "RegistryLookupFailure"}
                  /\ LogOps("print_msg") = {} /\ LogOps("insert_into_table") = {}
                  /\ inserted = <<>>
                  /\ writes = 0

\* a batch whose first token found no version while the second is a plain name
\* that was never looked up
C2_Witness ==
    /\ Batch /\ ParseRan
    /\ PlainName(args.arg_crates[1]) /\ PlainName(args.arg_crates[2])
    /\ Len(evs) = 1 /\ evs[1].idx = 1 /\ ~IsSome(evs[1].resp)
    /\ outcome = "error"

TheToken == args.arg_crates[1]

\* C3: a single-crate add whose specifier is name@version resolves to exactly one
\* Registry dependency with that name and that version, whatever the version, git,
\* path and upgrade flags are (a malformed version flag raises no error), and
\* without a registry lookup.
C3_PinnedWins ==
    (Single /\ ParseRan /\ Pinned(TheToken)) =>
        /\ Len(deps) = 1
        /\ deps[1].name = NamePart(TheToken)
        /\ deps[1].source = "Registry"
        /\ deps[1].version = Some(VersionPart(TheToken))
        /\ deps[1].loc = None
        /\ evs = <<>>
        /\ err \notin {"InvalidVersionLiteral", "InvalidVersionRequirement",
                       "RegistryLookupFailure", "InvalidLocator", "unreachable"}

\* name@version given together with a malformed --vers, --git and --path
C3_Witness ==
    /\ Single /\ ParseRan /\ Pinned(TheToken)
    /\ args.flag_vers = Some(<<"x">>) /\ IsSome(args.flag_git) /\ IsSome(args.flag_path)
    /\ Len(deps) = 1 /\ deps[1].source = "Registry"

LocatorResult ==
    /\ Len(deps) = 1
    /\ deps[1].name = Unwrap(evs[1].resp)
    /\ deps[1].source = IF Contains(TheToken, ":") THEN "Git" ELSE "Path"
    /\ deps[1].loc = Some(TheToken)
    /\ deps[1].version = None

\* C4 as stated: a single-crate add whose specifier is not pinned and is a URL or a
\* path always resolves to exactly one dependency named from the locator, with source
\* Git or Path by the locator's kind, whatever the flags, without a registry lookup.
C4_AsStated ==
    (Single /\ ParseRan /\ Locator(TheToken)) =>
        /\ Len(evs) = 1 /\ evs[1].op = "locate" /\ evs[1].arg = TheToken
        /\ LocatorResult

\* C4, amended: such a specifier is handed to the locator resolver and to nothing
\* else, whatever the flags; when the resolver derives a name the result is exactly
\* one dependency with that name and source Git or Path by the locator's kind, and
\* when it derives none the result is the resolver's error and no dependency.
C4_LocatorWins ==
    (Single /\ ParseRan /\ Locator(TheToken)) =>
        /\ Len(evs) = 1 /\ evs[1].op = "locate" /\ evs[1].arg = TheToken
        /\ IsSome(evs[1].resp) => LocatorResult
        /\ ~IsSome(evs[1].resp) => (deps = <<>> /\ outcome = "error" /\ err = "InvalidLocator")

\* a URL given together with --vers, --git and --path, resolved to a Git dependency
C4_Witness ==
    /\ Single /\ ParseRan /\ Locator(TheToken) /\ Contains(TheToken, ":")
    /\ IsSome(args.flag_vers) /\ IsSome(args.flag_git) /\ IsSome(args.flag_path)
    /\ Len(deps) = 1 /\ deps[1].source = "Git"

\* C5: a single-crate add of a plain name takes its source from the version flag,
\* else the git flag, else the path flag, else the registry: a version flag gives
\* Registry with the flag's text unchanged, or InvalidVersionRequirement when it is
\* malformed, whatever git and path are; the registry is asked only when none of
\* the three flags is set.
C5_FlagPrecedence ==
    (Single /\ ParseRan /\ PlainName(TheToken)) =>
        IF IsSome(args.flag_vers)
        THEN /\ evs = <<>>
             /\ IF VersionReqParses(Unwrap(args.flag_vers))
                THEN /\ Len(deps) = 1
                     /\ deps[1].name = TheToken
                     /\ deps[1].source = "Registry"
                     /\ deps[1].version = args.flag_vers
                ELSE deps = <<>> /\ outcome = "error" /\ err = "InvalidVersionRequirement"
        ELSE IF IsSome(args.flag_git)
        THEN /\ evs = <<>>
             /\ Len(deps) = 1 /\ deps[1].name = TheToken
             /\ deps[1].source = "Git" /\ deps[1].loc = args.flag_git
        ELSE IF IsSome(args.flag_path)
        THEN /\ evs = <<>>
             /\ Len(deps) = 1 /\ deps[1].name = TheToken
             /\ deps[1].source = "Path" /\ deps[1].loc = args.flag_path
        ELSE /\ Len(evs) = 1 /\ evs[1].op = "lookup" /\ evs[1].arg = TheToken

\* a plain name with --git and --path both given and no --vers: Git is chosen
C5_Witness ==
    /\ Single /\ ParseRan /\ PlainName(TheToken)
    /\ ~IsSome(args.flag_vers) /\ IsSome(args.flag_git) /\ IsSome(args.flag_path)
    /\ Len(deps) = 1 /\ deps[1].source = "Git"

\* s spells the lower-case word w in some letter case
Spells(s, w) ==
    /\ Len(s) = Len(w)
    /\ \A i \in 1..Len(s) :
          \E k \in 1..26 : LowerChars[k] = w[i] /\ s[i] \in {LowerChars[k], UpperChars[k]}

IsUpgradeMode(s) ==
    \/ Spells(s, <<"n","o","n","e">>)
    \/ Spells(s, <<"p","a","t","c","h">>)
    \/ Spells(s, <<"m","i","n","o","r">>)
    \/ Spells(s, <<"a","l","l">>)

PrefixOf(s) ==
    IF Spells(s, <<"n","o","n","e">>) THEN <<"=">>
    ELSE IF Spells(s, <<"p","a","t","c","h">>) THEN <<"~">>
    ELSE IF Spells(s, <<"m","i","n","o","r">>) THEN <<"^">>
    ELSE <<">", "=">>

RegistryFallback ==
    /\ Single /\ ParseRan /\ PlainName(TheToken)
    /\ ~IsSome(args.flag_vers) /\ ~IsSome(args.flag_git) /\ ~IsSome(args.flag_path)

\* C6: in the registry fallback of a single-crate add, a failed lookup gives the
\* RegistryLookupFailure error, and a lookup that returns v gives a Registry
\* dependency whose requirement is the prefix followed by v, the prefix being "="
\* for none, "~" for patch, "^" for minor, ">=" for all, in any letter case.
C6_RegistryFallback ==
    (RegistryFallback /\ IsUpgradeMode(args.flag_upgrade)) =>
        /\ Len(evs) = 1 /\ evs[1].op = "lookup"
        /\ evs[1].pre = args.flag_allow_prerelease
        /\ ~IsSome(evs[1].resp) =>
              (deps = <<>> /\ outcome = "error" /\ err = "RegistryLookupFailure")
        /\ IsSome(evs[1].resp) =>
              /\ Len(deps) = 1
              /\ deps[1].name = TheToken
              /\ deps[1].source = "Registry"
              /\ deps[1].version = Some(PrefixOf(args.flag_upgrade) \o Unwrap(evs[1].resp))

\* --upgrade=Patch (mixed case) and a found version: the requirement is ~2.0
C6_Witness ==
    /\ RegistryFallback
    /\ args.flag_upgrade = <<"P","a","t","c","h">>
    /\ Len(deps) = 1 /\ deps[1].version = Some(<<"~","2",".","0">>)

SectionCalls == LogOps("print_msg") \cup LogOps("insert_into_table") \cup LogOps("remove_from_table")

\* C7: the section for add is ["dev-dependencies"] for Dev and
\* ["build-dependencies"] for Build whatever the target is (absent and empty
\* included, so no panic there); for Normal and Optional it is ["dependencies"]
\* without a target and ["target", t, "dependencies"] with a non-empty target t.
\* The section for rm is one of the three single names, by the kind alone.
C7_Sections ==
    /\ IsAdd =>
        /\ \A i \in SectionCalls :
              log[i].sec =
                 IF args.dep_kind = "Dev" THEN <<"dev-dependencies">>
                 ELSE IF args.dep_kind = "Build" THEN <<"build-dependencies">>
                 ELSE IF args.flag_target = None THEN <<"dependencies">>
                 ELSE <<"target", args.flag_target[1], "dependencies">>
        /\ \A i \in SectionCalls :
              (args.dep_kind \in {"Normal", "Optional"} /\ args.flag_target # None)
                 => args.flag_target[1] # ""
        /\ err = "Target specification may not be empty"
              => args.dep_kind \in {"Normal", "Optional"}
        /\ (args.dep_kind \in {"Dev", "Build"} /\ Len(deps) >= 1 /\ pc = "done"
              /\ err \notin {"ManifestNotFound"})
              => SectionCalls # {}
    /\ IsRm =>
        \A i \in SectionCalls :
              log[i].sec =
                 IF args.dep_kind = "Dev" THEN <<"dev-dependencies">>
                 ELSE IF args.dep_kind = "Build" THEN <<"build-dependencies">>
                 ELSE <<"dependencies">>

\* a Dev dependency added with an empty --target went into dev-dependencies
C7_Witness ==
    /\ IsAdd /\ args.dep_kind = "Dev" /\ args.flag_target = Some("")
    /\ \E i \in LogOps("insert_into_table") : log[i].ok /\ log[i].sec = <<"dev-dependencies">>

EmptyTargetAdd ==
    /\ IsAdd /\ args.dep_kind \in {"Normal", "Optional"} /\ args.flag_target = Some("")

\* C8 as stated: an add with kind Normal or Optional and an empty target ends in the
\* EmptyTargetSpecifier error, an error value that reaches main, which reports it
\* and exits with code 1; nothing is inserted and nothing is written.  (Stated for
\* the runs that get as far as the section: the manifest opened and the
\* dependencies resolved.)
C8_AsStated ==
    (EmptyTargetAdd /\ ParseRan /\ Len(deps) >= 1 /\ pc = "done") =>
        /\ outcome = "error"
        /\ err = "EmptyTargetSpecifier"
        /\ exit_code = 1
        /\ inserted = <<>>
        /\ writes = 0

\* the single-crate Args that resolve token i of the batch alone, with no version,
\* git or path flag and the default --upgrade
AloneArgs(i) ==
    [args EXCEPT !.arg_crates = <<args.arg_crates[i]>>, !.flag_vers = None, !.flag_git = None,
                 !.flag_path = None, !.flag_upgrade = <<"m","i","n","o","r">>]

\* what the registry answered for token i of the batch, None if it was not asked
AnswerFor(i) ==
    IF \E e \in Lookups : evs[e].idx = i
    THEN evs[CHOOSE e \in Lookups : evs[e].idx = i].resp
    ELSE None

\* C9 as stated: a batch that resolves gives, token by token, what the single-crate
\* resolution gives for that token with no version, git or path flag and the minor
\* policy: the pinned Registry dependency for name@version, the Git or Path
\* dependency named from the locator for a URL or path, and "^" followed by the
\* registry's latest version for a plain name.
C9_AsStated ==
    (Batch /\ ParseRan /\ Len(deps) = Len(args.arg_crates)) =>
        \A i \in 1..Len(deps) :
            \E loc \in LocResponses :
                LET r == parse_dependencies_single(AloneArgs(i), AnswerFor(i), loc) IN
                r.tag = "Ok" /\ r.dep = deps[i]

\* C10 as stated: get_upgrade_prefix is only ever called with one of none, patch,
\* minor, all in some letter case, so its unreachable!() arm never runs.
C10_AsStated ==
    err # "unreachable"

\* the notifications and insertions of handle_add come dependency by dependency, the
\* notification of a dependency before its insertion, and nothing follows a failed
\* notification or insertion
LoopInOrder ==
    /\ \A i, j \in LogOps("insert_into_table") : i < j => log[i].idx < log[j].idx
    /\ \A i, j \in LogOps("print_msg") : i < j => log[i].idx < log[j].idx
    /\ \A i \in LogOps("insert_into_table") :
          /\ ~args.flag_quiet =>
                (i > 1 /\ log[i-1].op = "print_msg" /\ log[i-1].idx = log[i].idx /\ log[i-1].ok)
          /\ ~log[i].ok => i = Len(log)
    /\ \A i \in LogOps("print_msg") : ~log[i].ok => i = Len(log)
    /\ \A i \in LogOps("write_to_file") :
          \A j \in LogOps("insert_into_table") \cup LogOps("print_msg") : j < i

\* C11 as stated: handle_add resolves the section from kind and target first, then
\* the dependency list, then notifies and inserts dependency by dependency, then
\* writes; so an empty target is detected before any registry lookup (or any other
\* resolution call) is issued, and nothing is notified or inserted after the first
\* failing insertion.
C11_AsStated ==
    IsAdd =>
        /\ LoopInOrder
        /\ EmptyTargetAdd => (Lookups = {} /\ evs = <<>> /\ deps = <<>>)

====
